---- MODULE Spec2Model ----
(***************************************************************************)
(* Model of src/example.py: the train/validate/checkpoint loop `trainval`, *)
(* the loader and model providers, the MLP's per-epoch passes, and the     *)
(* command-line driver.                                                    *)
(*                                                                         *)
(* One checkpoint directory (savedir = savedir_base/hash(exp_dict)) is     *)
(* modelled together with the sequence of processes that run trainval on   *)
(* it, one at a time. A process may be terminated between any two steps.   *)
(*                                                                         *)
(* Abstractions: the numerical content of the network is replaced by a     *)
(* version counter (how many train_on_batch updates the parameters, resp.  *)
(* the optimizer, have received); a loader is its number of batches; the   *)
(* loss / accuracy values of a score record are the parameter version they *)
(* were computed with. The names `datasets.get_loader` and                 *)
(* `models.get_model` used by trainval are taken to be the module-level    *)
(* functions get_loader and get_model of the same file.                    *)
(***************************************************************************)
EXTENDS Integers, Sequences, FiniteSets, TLC

(***************************************************************************)
(* Bounds of the model.                                                    *)
(***************************************************************************)
\* largest max_epoch of a configuration
MaxEpoch == 2
\* number of trainval processes started on the directory
MaxInvocations == 3

\* the progress-print divisor of train_on_loader / val_on_loader
PrintDiv == 10

\* lengths of the loaders (number of batches) the environment may give
BatchCounts == {0, 3, 10, 11}

DatasetNames == {"mnist", "cifar"}
ModelNames == {"mlp", "cnn"}
\* values of the reset argument (argparse type=int, default 0)
ResetValues == {0, 1}

\* Python's None where an object (loader, model, dict) is expected
None == [none |-> TRUE]
\* None where a command-line string is expected
NoneStr == "None"
\* a file of savedir: absent, or present with its deserialised content
NoFile == [exists |-> FALSE]
File(data) == [exists |-> TRUE, data |-> data]
\* the backup location holds no copy of the directory
NoDir == [exists |-> FALSE]

VARIABLES
    \* ---- the configuration and its environment (fixed for the directory)
    exp_dict,       \* [dataset, model, max_epoch]
    loader_len,     \* [train |-> n, val |-> m]: len() of the mnist loaders
    \* ---- persisted state: the active directory and the backup location
    dir_exists,     \* savedir exists
    exp_json,       \* exp_dict.json exists in savedir
    model_pth,      \* NoFile or File(state dict [model, opt])
    score_pkl,      \* NoFile or File(score list)
    deleted,        \* backup location: NoDir or the moved directory contents
    \* ---- the running trainval process
    pc,             \* position in trainval
    err,            \* exception that ended the process, "none" otherwise
    reset,          \* the reset argument
    train_loader,   \* None or [n_batches]
    val_loader,
    model,          \* "unset", None or [model, opt]
    score_list,
    s_epoch,
    e,              \* loop variable of line 71
    i,              \* batch index of the running pass
    train_dict,     \* None or [train_loss]
    val_dict,       \* None or [val_acc]
    \* ---- observation (history) variables
    invocations,    \* processes started so far
    n_train_steps,  \* train_on_batch calls of this process
    n_train_pass,   \* train_on_loader calls of this process
    n_val_pass,     \* val_on_loader calls of this process
    n_writes,       \* writes of model.pth / score_list.pkl by this process
    snap,           \* the persisted state when this process was started
    epoch_log,      \* what the current epoch has finished, in order
    past_reset,     \* this process has passed lines 27-29
    \* ---- the command-line driver (__main__)
    d_pc, args, exp_list, modes_run, calls, d_err

diskvars == <<dir_exists, exp_json, model_pth, score_pkl, deleted>>
procvars == <<pc, err, reset, train_loader, val_loader, model, score_list,
              s_epoch, e, i, train_dict, val_dict>>
obsvars == <<invocations, n_train_steps, n_train_pass, n_val_pass, n_writes,
             snap, epoch_log, past_reset>>
cfgvars == <<exp_dict, loader_len>>
drivervars == <<d_pc, args, exp_list, modes_run, calls, d_err>>
vars == <<cfgvars, diskvars, procvars, obsvars, drivervars>>

(***************************************************************************)
(* Pure helpers.                                                           *)
(***************************************************************************)
\* Python truth value of an int argument
TruthyInt(v) == v # 0

\* Python truth value of an optional string argument
TruthyStr(v) == v \notin {NoneStr, ""}

\* os.path.exists of a file of savedir
Exists(f) == f.exists

\* MLP(): freshly initialised parameters and optimizer
MLP == [model |-> 0, opt |-> 0]

\* get_loader: a loader for 'mnist', None (no return) for any other name
get_loader(dataset_name, split) ==
    IF dataset_name = "mnist" THEN [n_batches |-> loader_len[split]] ELSE None

\* get_model: MLP() for 'mlp', None for any other name
get_model(model_name) ==
    IF model_name = "mlp" THEN MLP ELSE None

\* MLP.get_state_dict
get_state_dict(m) == [model |-> m.model, opt |-> m.opt]

\* a faulty restore that leaves the optimizer at its current value
set_state_dict_params_only(m, state_dict) ==
    [model |-> state_dict.model, opt |-> m.opt]

\* MLP.set_state_dict: parameters and optimizer state are both loaded
set_state_dict(m, state_dict) ==
    [model |-> state_dict.model, opt |-> state_dict.opt]

\* MLP.train_on_batch: one optimizer step on the parameters
train_on_batch(m) == [model |-> m.model + 1, opt |-> m.opt + 1]

\* a guarded progress print that never divides by zero
ModByZero_guarded(n_batches) == FALSE

\* `i % (n_batches//10)` raises ZeroDivisionError when n_batches < 10
ModByZero(n_batches) == (n_batches \div PrintDiv) = 0

\* a resume that repeats the last recorded epoch
StartEpoch_same(sl) == sl[Len(sl)].epoch

\* line 61: s_epoch = score_list[-1]['epoch'] + 1
StartEpoch(sl) == sl[Len(sl)].epoch + 1

\* a loop that runs one epoch too many
InRange_inclusive(ep, s, max_epoch) == s <= ep /\ ep <= max_epoch

\* line 71: e in range(s_epoch, max_epoch)
InRange(ep, s, max_epoch) == s <= ep /\ ep < max_epoch

\* a score list that drops the new record
AddScore_dropped(sl, score_dict) == sl

\* line 86: score_list += [score_dict]
AddScore(sl, score_dict) == Append(sl, score_dict)

\* a record that numbers epochs from 1
ScoreDict_one_based(ep, td, vd) ==
    [epoch |-> ep + 1, train_loss |-> td.train_loss, val_acc |-> vd.val_acc]

\* lines 72-83: the epoch's score record
ScoreDict(ep, td, vd) ==
    [epoch |-> ep, train_loss |-> td.train_loss, val_acc |-> vd.val_acc]

\* a reset flag that is ignored
TakesReset_never(r) == FALSE

\* line 27: if reset
TakesReset(r) == TruthyInt(r)

\* the contents of the active directory
DirContents == [exists |-> dir_exists, exp_json |-> exp_json,
                model_pth |-> model_pth, score_pkl |-> score_pkl]

\* a trainval process is executing
Running == pc \notin {"idle", "done", "error", "killed"}

\* an exception leaves trainval and ends the process
Raise(kind) ==
    /\ pc' = "error"
    /\ err' = kind

\* the process goes on to position p
Goto(p) ==
    /\ pc' = p
    /\ err' = err

TypeOK ==
    /\ exp_dict \in [dataset : DatasetNames, model : ModelNames,
                     max_epoch : 0..MaxEpoch]
    /\ loader_len \in [train : BatchCounts, val : BatchCounts]
    /\ dir_exists \in BOOLEAN /\ exp_json \in BOOLEAN
    /\ reset \in ResetValues
    /\ invocations \in 0..MaxInvocations

(***************************************************************************)
(* trainval, lines 19-95. One action per statement that changes state.     *)
(***************************************************************************)
\* hc.delete_experiment(savedir, backup_flag=True): the directory, when it
\* exists, is moved to the backup location
delete_experiment ==
    IF dir_exists
    THEN /\ deleted' = DirContents
         /\ dir_exists' = FALSE
         /\ exp_json' = FALSE
         /\ model_pth' = NoFile
         /\ score_pkl' = NoFile
    ELSE UNCHANGED diskvars

\* a process is started: trainval(exp_dict, savedir_base, reset=r)
Invoke(r) ==
    /\ ~Running
    /\ invocations < MaxInvocations
    /\ invocations' = invocations + 1
    /\ reset' = r
    /\ pc' = "reset"
    /\ err' = "none"
    /\ train_loader' = None /\ val_loader' = None /\ model' = None
    /\ score_list' = <<>> /\ s_epoch' = 0 /\ e' = 0 /\ i' = 0
    /\ train_dict' = None /\ val_dict' = None
    /\ n_train_steps' = 0 /\ n_train_pass' = 0 /\ n_val_pass' = 0
    /\ n_writes' = 0
    /\ snap' = [dir |-> DirContents, deleted |-> deleted]
    /\ epoch_log' = <<>>
    /\ past_reset' = FALSE
    /\ UNCHANGED <<cfgvars, diskvars, drivervars>>

\* lines 27-29
Reset ==
    /\ pc = "reset"
    /\ IF TakesReset(reset) THEN delete_experiment ELSE UNCHANGED diskvars
    /\ Goto("makedirs")
    /\ past_reset' = TRUE
    /\ UNCHANGED <<reset, train_loader, val_loader, model, score_list,
                   s_epoch, e, i, train_dict, val_dict>>
    /\ UNCHANGED <<invocations, n_train_steps, n_train_pass, n_val_pass,
                   n_writes, snap, epoch_log>>
    /\ UNCHANGED <<cfgvars, drivervars>>

\* line 32: os.makedirs(savedir, exist_ok=True)
MakeDirs ==
    /\ pc = "makedirs"
    /\ dir_exists' = TRUE
    /\ Goto("save_json")
    /\ UNCHANGED <<exp_json, model_pth, score_pkl, deleted>>
    /\ UNCHANGED <<reset, train_loader, val_loader, model, score_list,
                   s_epoch, e, i, train_dict, val_dict>>
    /\ UNCHANGED <<cfgvars, obsvars, drivervars>>

\* line 33: hu.save_json(.../exp_dict.json, exp_dict)
SaveJson ==
    /\ pc = "save_json"
    /\ exp_json' = TRUE
    /\ Goto("get_loader")
    /\ UNCHANGED <<dir_exists, model_pth, score_pkl, deleted>>
    /\ UNCHANGED <<reset, train_loader, val_loader, model, score_list,
                   s_epoch, e, i, train_dict, val_dict>>
    /\ UNCHANGED <<cfgvars, obsvars, drivervars>>

\* lines 41-46: the train and the val loader
GetLoaders ==
    /\ pc = "get_loader"
    /\ train_loader' = get_loader(exp_dict.dataset, "train")
    /\ val_loader' = get_loader(exp_dict.dataset, "val")
    /\ Goto("get_model")
    /\ UNCHANGED <<reset, model, score_list, s_epoch, e, i, train_dict,
                   val_dict>>
    /\ UNCHANGED <<cfgvars, diskvars, obsvars, drivervars>>

\* line 50
GetModel ==
    /\ pc = "get_model"
    /\ model' = get_model(exp_dict.model)
    /\ Goto("checkpoint")
    /\ UNCHANGED <<reset, train_loader, val_loader, score_list, s_epoch, e,
                   i, train_dict, val_dict>>
    /\ UNCHANGED <<cfgvars, diskvars, obsvars, drivervars>>

\* lines 57-61: score_list.pkl exists, the experiment is resumed
ResumeExperiment ==
    /\ pc = "checkpoint"
    /\ Exists(score_pkl)
    /\ IF model = None
       THEN \* None has no set_state_dict
            /\ Raise("AttributeError")
            /\ UNCHANGED <<model, score_list, s_epoch, e>>
       ELSE IF ~Exists(model_pth)
       THEN \* hu.torch_load of a missing file
            /\ Raise("FileNotFoundError")
            /\ UNCHANGED <<model, score_list, s_epoch, e>>
       ELSE IF Len(score_pkl.data) = 0
       THEN \* score_list[-1] of an empty list
            /\ Raise("IndexError")
            /\ model' = set_state_dict(model, model_pth.data)
            /\ score_list' = score_pkl.data
            /\ UNCHANGED <<s_epoch, e>>
       ELSE /\ Goto("for")
            /\ model' = set_state_dict(model, model_pth.data)
            /\ score_list' = score_pkl.data
            /\ s_epoch' = StartEpoch(score_pkl.data)
            /\ e' = StartEpoch(score_pkl.data)
    /\ UNCHANGED <<reset, train_loader, val_loader, i, train_dict, val_dict>>
    /\ UNCHANGED <<cfgvars, diskvars, obsvars, drivervars>>

\* lines 62-65: no score_list.pkl, the experiment starts at epoch 0
RestartExperiment ==
    /\ pc = "checkpoint"
    /\ ~Exists(score_pkl)
    /\ score_list' = <<>>
    /\ s_epoch' = 0
    /\ e' = 0
    /\ Goto("for")
    /\ UNCHANGED <<reset, train_loader, val_loader, model, i, train_dict,
                   val_dict>>
    /\ UNCHANGED <<cfgvars, diskvars, obsvars, drivervars>>

\* line 71: the next epoch, or line 95 when the range is exhausted
ForEpoch ==
    /\ pc = "for"
    /\ IF InRange(e, s_epoch, exp_dict.max_epoch)
       THEN Goto("train_start")
       ELSE Goto("done")
    /\ epoch_log' = <<>>
    /\ UNCHANGED <<reset, train_loader, val_loader, model, score_list,
                   s_epoch, e, i, train_dict, val_dict>>
    /\ UNCHANGED <<invocations, n_train_steps, n_train_pass, n_val_pass,
                   n_writes, snap, past_reset>>
    /\ UNCHANGED <<cfgvars, diskvars, drivervars>>

\* line 75 and lines 168-171: model.train_on_loader is entered
TrainOnLoaderStart ==
    /\ pc = "train_start"
    /\ IF model = None
       THEN \* None has no train_on_loader
            /\ Raise("AttributeError")
            /\ UNCHANGED <<i, n_train_pass>>
       ELSE IF train_loader = None
       THEN \* len(None)
            /\ Raise("TypeError")
            /\ i' = i
            /\ n_train_pass' = n_train_pass + 1
       ELSE /\ Goto("train_batch")
            /\ i' = 0
            /\ n_train_pass' = n_train_pass + 1
    /\ UNCHANGED <<reset, train_loader, val_loader, model, score_list,
                   s_epoch, e, train_dict, val_dict>>
    /\ UNCHANGED <<invocations, n_train_steps, n_val_pass, n_writes, snap,
                   epoch_log, past_reset>>
    /\ UNCHANGED <<cfgvars, diskvars, drivervars>>

\* lines 173-177: one batch is trained on, then the progress print
TrainOnBatch ==
    /\ pc = "train_batch"
    /\ i < train_loader.n_batches
    /\ model' = train_on_batch(model)
    /\ n_train_steps' = n_train_steps + 1
    /\ IF ModByZero(train_loader.n_batches)
       THEN Raise("ZeroDivisionError") /\ i' = i
       ELSE Goto("train_batch") /\ i' = i + 1
    /\ UNCHANGED <<reset, train_loader, val_loader, score_list, s_epoch, e,
                   train_dict, val_dict>>
    /\ UNCHANGED <<invocations, n_train_pass, n_val_pass, n_writes, snap,
                   epoch_log, past_reset>>
    /\ UNCHANGED <<cfgvars, diskvars, drivervars>>

\* lines 179-181: loss = loss_sum / n_batches
TrainOnLoaderReturn ==
    /\ pc = "train_batch"
    /\ i >= train_loader.n_batches
    /\ IF train_loader.n_batches = 0
       THEN /\ Raise("ZeroDivisionError")
            /\ UNCHANGED <<train_dict, epoch_log>>
       ELSE /\ Goto("val_start")
            /\ train_dict' = [train_loss |-> model.model]
            /\ epoch_log' = Append(epoch_log, "train")
    /\ UNCHANGED <<reset, train_loader, val_loader, model, score_list,
                   s_epoch, e, i, val_dict>>
    /\ UNCHANGED <<invocations, n_train_steps, n_train_pass, n_val_pass,
                   n_writes, snap, past_reset>>
    /\ UNCHANGED <<cfgvars, diskvars, drivervars>>

\* line 78 and lines 186-190: model.val_on_loader is entered
ValOnLoaderStart ==
    /\ pc = "val_start"
    /\ n_val_pass' = n_val_pass + 1
    /\ IF val_loader = None
       THEN Raise("TypeError") /\ i' = i
       ELSE Goto("val_batch") /\ i' = 0
    /\ UNCHANGED <<reset, train_loader, val_loader, model, score_list,
                   s_epoch, e, train_dict, val_dict>>
    /\ UNCHANGED <<invocations, n_train_steps, n_train_pass, n_writes, snap,
                   epoch_log, past_reset>>
    /\ UNCHANGED <<cfgvars, diskvars, drivervars>>

\* lines 192-200: one batch is predicted, then the progress print
ValOnBatch ==
    /\ pc = "val_batch"
    /\ i < val_loader.n_batches
    /\ IF ModByZero(val_loader.n_batches)
       THEN Raise("ZeroDivisionError") /\ i' = i
       ELSE Goto("val_batch") /\ i' = i + 1
    /\ UNCHANGED <<reset, train_loader, val_loader, model, score_list,
                   s_epoch, e, train_dict, val_dict>>
    /\ UNCHANGED <<cfgvars, diskvars, obsvars, drivervars>>

\* lines 202-204: acc = se / n_samples; n_samples is 0 exactly when no
\* batch was seen
ValOnLoaderReturn ==
    /\ pc = "val_batch"
    /\ i >= val_loader.n_batches
    /\ IF i = 0
       THEN /\ Raise("ZeroDivisionError")
            /\ UNCHANGED <<val_dict, epoch_log>>
       ELSE /\ Goto("append")
            /\ val_dict' = [val_acc |-> model.model]
            /\ epoch_log' = Append(epoch_log, "val")
    /\ UNCHANGED <<reset, train_loader, val_loader, model, score_list,
                   s_epoch, e, i, train_dict>>
    /\ UNCHANGED <<invocations, n_train_steps, n_train_pass, n_val_pass,
                   n_writes, snap, past_reset>>
    /\ UNCHANGED <<cfgvars, diskvars, drivervars>>

\* lines 81-86: the epoch's record is appended to score_list
AppendScore ==
    /\ pc = "append"
    /\ score_list' = AddScore(score_list, ScoreDict(e, train_dict, val_dict))
    /\ epoch_log' = Append(epoch_log, "append")
    /\ Goto("torch_save")
    /\ UNCHANGED <<reset, train_loader, val_loader, model, s_epoch, e, i,
                   train_dict, val_dict>>
    /\ UNCHANGED <<invocations, n_train_steps, n_train_pass, n_val_pass,
                   n_writes, snap, past_reset>>
    /\ UNCHANGED <<cfgvars, diskvars, drivervars>>

\* line 91: hu.torch_save(model_path, model.get_state_dict())
TorchSave ==
    /\ pc = "torch_save"
    /\ model_pth' = File(get_state_dict(model))
    /\ n_writes' = n_writes + 1
    /\ epoch_log' = Append(epoch_log, "torch_save")
    /\ Goto("save_pkl")
    /\ UNCHANGED <<dir_exists, exp_json, score_pkl, deleted>>
    /\ UNCHANGED <<reset, train_loader, val_loader, model, score_list,
                   s_epoch, e, i, train_dict, val_dict>>
    /\ UNCHANGED <<invocations, n_train_steps, n_train_pass, n_val_pass,
                   snap, past_reset>>
    /\ UNCHANGED <<cfgvars, drivervars>>

\* line 92: hu.save_pkl(score_list_path, score_list); then the next e
SavePkl ==
    /\ pc = "save_pkl"
    /\ score_pkl' = File(score_list)
    /\ n_writes' = n_writes + 1
    /\ epoch_log' = Append(epoch_log, "save_pkl")
    /\ e' = e + 1
    /\ Goto("for")
    /\ UNCHANGED <<dir_exists, exp_json, model_pth, deleted>>
    /\ UNCHANGED <<reset, train_loader, val_loader, model, score_list,
                   s_epoch, i, train_dict, val_dict>>
    /\ UNCHANGED <<invocations, n_train_steps, n_train_pass, n_val_pass,
                   snap, past_reset>>
    /\ UNCHANGED <<cfgvars, drivervars>>

\* the process is terminated from outside, between two steps
Kill ==
    /\ Running
    /\ pc' = "killed"
    /\ UNCHANGED <<err, reset, train_loader, val_loader, model, score_list,
                   s_epoch, e, i, train_dict, val_dict>>
    /\ UNCHANGED <<cfgvars, diskvars, obsvars, drivervars>>

\* one step of the running process
Step ==
    \/ Reset \/ MakeDirs \/ SaveJson \/ GetLoaders \/ GetModel
    \/ ResumeExperiment \/ RestartExperiment \/ ForEpoch
    \/ TrainOnLoaderStart \/ TrainOnBatch \/ TrainOnLoaderReturn
    \/ ValOnLoaderStart \/ ValOnBatch \/ ValOnLoaderReturn
    \/ AppendScore \/ TorchSave \/ SavePkl

\* the driver's variables while trainval alone is studied
DriverIdle ==
    /\ d_pc = "off"
    /\ args = [view_jupyter |-> NoneStr, run_jobs |-> NoneStr, reset |-> 0,
               exp_id |-> NoneStr, exp_group_list |-> <<>>]
    /\ exp_list = <<>>
    /\ modes_run = <<>>
    /\ calls = <<>>
    /\ d_err = "none"

\* no process has run on the directory, which does not exist
NoProcess ==
    /\ dir_exists = FALSE /\ exp_json = FALSE
    /\ model_pth = NoFile /\ score_pkl = NoFile /\ deleted = NoDir
    /\ pc = "idle" /\ err = "none" /\ reset = 0
    /\ train_loader = None /\ val_loader = None /\ model = None
    /\ score_list = <<>> /\ s_epoch = 0 /\ e = 0 /\ i = 0
    /\ train_dict = None /\ val_dict = None
    /\ invocations = 0 /\ n_train_steps = 0 /\ n_train_pass = 0
    /\ n_val_pass = 0 /\ n_writes = 0
    /\ snap = [dir |-> [exists |-> FALSE, exp_json |-> FALSE,
                        model_pth |-> NoFile, score_pkl |-> NoFile],
               deleted |-> NoDir]
    /\ epoch_log = <<>>
    /\ past_reset = FALSE

Init ==
    /\ exp_dict \in [dataset : DatasetNames, model : ModelNames,
                     max_epoch : 0..MaxEpoch]
    /\ loader_len \in [train : BatchCounts, val : BatchCounts]
    /\ NoProcess
    /\ DriverIdle

Next ==
    \/ \E r \in ResetValues : Invoke(r)
    \/ Step
    \/ Kill

Spec == Init /\ [][Next]_vars

\* loader lengths with which neither pass divides by zero
OkBatchCounts == {n \in BatchCounts : n >= PrintDiv}

\* a supported configuration whose loaders hold at least 10 batches
LifecycleInit ==
    /\ exp_dict \in [dataset : {"mnist"}, model : {"mlp"},
                     max_epoch : 0..MaxEpoch]
    /\ loader_len \in [train : OkBatchCounts, val : OkBatchCounts]
    /\ NoProcess
    /\ DriverIdle

\* trainval is sequential code: a running process takes its next step
\* unless it is terminated
LifecycleSpec == LifecycleInit /\ [][Next]_vars /\ WF_vars(Step)

(***************************************************************************)
(* The driver, lines 229-280.                                              *)
(***************************************************************************)
\* values a string option may take on the command line (None: not given)
StrOptions == {NoneStr, "", "0", "1"}

\* hu.cartesian_exp_group of lines 100-105: one configuration per pair of
\* learning rate and batch size
cartesian_exp_group ==
    << [dataset |-> "mnist", model |-> "mlp", max_epoch |-> 20,
        lr |-> "1e-3", batch_size |-> 32],
       [dataset |-> "mnist", model |-> "mlp", max_epoch |-> 20,
        lr |-> "1e-3", batch_size |-> 64],
       [dataset |-> "mnist", model |-> "mlp", max_epoch |-> 20,
        lr |-> "1e-4", batch_size |-> 32],
       [dataset |-> "mnist", model |-> "mlp", max_epoch |-> 20,
        lr |-> "1e-4", batch_size |-> 64] >>

\* lines 99-106
EXP_GROUPS == [mnist |-> cartesian_exp_group]

\* -e values: not given, or a list of group names
GroupLists == {None, [names |-> <<"mnist">>], [names |-> <<"mnist", "mnist">>],
               [names |-> <<"bogus">>], [names |-> <<"mnist", "bogus">>]}

\* -ei values: not given, a directory holding exp_dict.json, one that does not
ExpIds == {NoneStr, "saved", "absent"}

\* hu.load_json(savedir/exp_dict.json) of the directory named "saved"
SavedExpDict == cartesian_exp_group[1]

RECURSIVE ConcatGroups(_)
\* lines 252-254: exp_list += EXP_GROUPS[name] for each name, in order
ConcatGroups(names) ==
    IF names = <<>> THEN <<>>
    ELSE EXP_GROUPS[Head(names)] \o ConcatGroups(Tail(names))

\* a dispatch written with two independent ifs
Mode_independent(view_jupyter, run_jobs) ==
    (IF TruthyStr(view_jupyter) THEN <<"view">> ELSE <<>>)
    \o (IF TruthyStr(run_jobs) THEN <<"jobs">> ELSE <<"trainval">>)

\* lines 259, 267, 274: the branches of the if / elif / else that execute
Mode(view_jupyter, run_jobs) ==
    IF TruthyStr(view_jupyter) THEN <<"view">>
    ELSE IF TruthyStr(run_jobs) THEN <<"jobs">>
    ELSE <<"trainval">>

\* lines 243-254: the experiments are collected
Collect ==
    /\ d_pc = "collect"
    /\ IF args.exp_id # NoneStr
       THEN IF args.exp_id = "saved"
            THEN /\ exp_list' = <<SavedExpDict>>
                 /\ d_pc' = "dispatch"
                 /\ d_err' = d_err
            ELSE \* load_json of a file that does not exist
                 /\ d_pc' = "error"
                 /\ d_err' = "FileNotFoundError"
                 /\ exp_list' = exp_list
       ELSE IF args.exp_group_list = None
            THEN \* for ... in None
                 /\ d_pc' = "error"
                 /\ d_err' = "TypeError"
                 /\ exp_list' = exp_list
            ELSE IF \E k \in 1..Len(args.exp_group_list.names) :
                        args.exp_group_list.names[k] \notin DOMAIN EXP_GROUPS
            THEN \* EXP_GROUPS[name] of an unknown name
                 /\ d_pc' = "error"
                 /\ d_err' = "KeyError"
                 /\ exp_list' = exp_list
            ELSE /\ exp_list' = ConcatGroups(args.exp_group_list.names)
                 /\ d_pc' = "dispatch"
                 /\ d_err' = d_err
    /\ UNCHANGED <<args, modes_run, calls>>
    /\ UNCHANGED <<cfgvars, diskvars, procvars, obsvars>>

\* lines 259-275: view (hj.view_jupyter), jobs (hj.run_exp_list_jobs), or
\* the in-process loop
Dispatch ==
    /\ d_pc = "dispatch"
    /\ modes_run' = Mode(args.view_jupyter, args.run_jobs)
    /\ d_pc' = IF \E k \in 1..Len(modes_run') : modes_run'[k] = "trainval"
               THEN "run" ELSE "exit"
    /\ UNCHANGED <<args, exp_list, calls, d_err>>
    /\ UNCHANGED <<cfgvars, diskvars, procvars, obsvars>>

\* lines 276-280: trainval is called on the next experiment of exp_list;
\* it returns, or raises and ends the driver
CallTrainval ==
    /\ d_pc = "run"
    /\ Len(calls) < Len(exp_list)
    /\ calls' = Append(calls, [exp_dict |-> exp_list[Len(calls) + 1],
                               index |-> Len(calls) + 1,
                               reset |-> args.reset])
    /\ \E raised \in BOOLEAN :
          IF raised
          THEN d_pc' = "error" /\ d_err' = "trainval"
          ELSE d_pc' = "run" /\ d_err' = d_err
    /\ UNCHANGED <<args, exp_list, modes_run>>
    /\ UNCHANGED <<cfgvars, diskvars, procvars, obsvars>>

\* the loop of line 276 is exhausted
LoopEnd ==
    /\ d_pc = "run"
    /\ Len(calls) >= Len(exp_list)
    /\ d_pc' = "exit"
    /\ UNCHANGED <<args, exp_list, modes_run, calls, d_err>>
    /\ UNCHANGED <<cfgvars, diskvars, procvars, obsvars>>

\* line 239: the arguments are parsed; no trainval process exists yet
DriverInit ==
    /\ args \in [view_jupyter : StrOptions, run_jobs : StrOptions,
                 reset : ResetValues, exp_id : ExpIds,
                 exp_group_list : GroupLists]
    /\ d_pc = "collect"
    /\ exp_list = <<>>
    /\ modes_run = <<>>
    /\ calls = <<>>
    /\ d_err = "none"
    /\ exp_dict = [dataset |-> "mnist", model |-> "mlp", max_epoch |-> 0]
    /\ loader_len = [train |-> 10, val |-> 10]
    /\ NoProcess

DriverNext == Collect \/ Dispatch \/ CallTrainval \/ LoopEnd

DriverSpec == DriverInit /\ [][DriverNext]_vars

(***************************************************************************)
(* Properties.                                                             *)
(***************************************************************************)
\* number of score records persisted in the active directory
NRecords == IF Exists(score_pkl) THEN Len(score_pkl.data) ELSE 0

\* a trainval process exists (running or ended) and its arguments are known
Started == pc # "idle"

\* the directory this process found held a finished experiment
FoundComplete ==
    /\ Exists(snap.dir.score_pkl)
    /\ Len(snap.dir.score_pkl.data) = exp_dict.max_epoch

\* C1 (resume idempotence): with max_epoch >= 1, a process started with
\* reset off on a directory whose score history holds max_epoch records
\* performs no training pass and no validation pass and leaves the persisted
\* score history and model state as it found them.
ResumeIdempotence ==
    (Started /\ exp_dict.max_epoch >= 1 /\ reset = 0 /\ FoundComplete)
    => /\ n_train_pass = 0
       /\ n_val_pass = 0
       /\ n_train_steps = 0
       /\ score_pkl = snap.dir.score_pkl
       /\ model_pth = snap.dir.model_pth

\* a re-invocation on a finished experiment has run to 'experiment completed'
ResumeIdempotenceWitness ==
    /\ pc = "done" /\ reset = 0 /\ exp_dict.max_epoch = MaxEpoch
    /\ FoundComplete
    /\ invocations >= 2

\* C2 (score history ordering): the persisted score history's epoch indices
\* are 0, 1, ..., n-1 in that order.
ScoreHistoryOrdering ==
    Exists(score_pkl) =>
        \A k \in 1..Len(score_pkl.data) : score_pkl.data[k].epoch = k - 1

\* a history of two records completed by a resumed process
ScoreHistoryOrderingWitness ==
    /\ Exists(score_pkl) /\ Len(score_pkl.data) = 2
    /\ s_epoch = 1 /\ reset = 0 /\ n_writes >= 2

\* the process is about to run its first epoch
BeforeFirstPass == pc = "train_start" /\ n_train_pass = 0

\* C3 (resume): a process started with reset off on a directory whose score
\* history exists runs as its first epoch the one past the last recorded, and
\* before that epoch's training pass its parameters and optimizer state are
\* the ones in the model-state file.
ResumeContinues ==
    (reset = 0 /\ Exists(snap.dir.score_pkl) /\ BeforeFirstPass)
    => /\ e = snap.dir.score_pkl.data[Len(snap.dir.score_pkl.data)].epoch + 1
       /\ s_epoch = e
       /\ score_list = snap.dir.score_pkl.data
       /\ Exists(model_pth)
       /\ model = model_pth.data
       /\ model_pth = snap.dir.model_pth

\* a resumed process about to train epoch 1 with a trained, loaded model
ResumeContinuesWitness ==
    /\ reset = 0 /\ Exists(snap.dir.score_pkl) /\ BeforeFirstPass
    /\ e = 1 /\ model.opt > 0 /\ model.model > 0

\* C4 (reset): a process started with reset on begins at epoch 0 with a fresh
\* model, the first record it persists has epoch 0, and what the directory
\* held before is no longer in the active directory but in the backup
\* location.
ResetSemantics ==
    (Started /\ reset = 1 /\ past_reset)
    => /\ n_writes = 0 => (model_pth = NoFile /\ score_pkl = NoFile)
       /\ snap.dir.exists => deleted = snap.dir
       /\ BeforeFirstPass
             => (e = 0 /\ score_list = <<>>
                 /\ model = get_model(exp_dict.model))
       /\ Exists(score_pkl)
             => /\ score_pkl.data[1].epoch = 0
                /\ score_pkl.data[1].train_loss = loader_len.train
                /\ n_writes >= 2

\* a reset of a directory holding a checkpoint, followed by a first epoch
ResetSemanticsWitness ==
    /\ reset = 1 /\ Exists(snap.dir.score_pkl) /\ Exists(snap.dir.model_pth)
    /\ Exists(score_pkl) /\ Len(score_pkl.data) = 1
    /\ deleted = snap.dir

\* the configuration names a dataset or a model that is not supported
Unsupported == exp_dict.dataset # "mnist" \/ exp_dict.model # "mlp"

\* C5 (unsupported names): with an unsupported dataset or model name
\* trainval ends in an error, never in 'experiment completed', before any
\* training step, and persists no score record and no model state.
UnsupportedNamesFail ==
    (Started /\ Unsupported)
    => /\ pc # "done"
       /\ n_train_steps = 0
       /\ model_pth = NoFile /\ score_pkl = NoFile

\* the driver has ended
DriverEnded == d_pc \in {"exit", "error"}

\* the experiments were collected (lines 243-254 raised nothing)
Collected == d_pc \in {"dispatch", "run", "exit"} \/ d_err = "trainval"

\* C6 as stated: every invocation of the driver executes exactly one mode,
\* and in view and job mode calls trainval on nothing.
DriverExactlyOneMode ==
    /\ Len(modes_run) <= 1
    /\ DriverEnded => Len(modes_run) = 1
    /\ modes_run \in {<<"view">>, <<"jobs">>} => calls = <<>>

\* C6 (driver modes, amended): never two modes are executed; exactly one is
\* once the experiments are collected, and none when collecting them raises;
\* the mode is the first of view, jobs, trainval whose flag allows it; in view
\* and job mode trainval is called on nothing, so no checkpoint directory is
\* touched, whatever the reset flag; in trainval mode the experiments are
\* called in list order.
DriverModes ==
    /\ Len(modes_run) <= 1
    /\ (DriverEnded /\ Collected) => Len(modes_run) = 1
    /\ (DriverEnded /\ ~Collected) => (modes_run = <<>> /\ calls = <<>>)
    /\ modes_run # <<>> =>
          modes_run[1] = (IF TruthyStr(args.view_jupyter) THEN "view"
                          ELSE IF TruthyStr(args.run_jobs) THEN "jobs"
                          ELSE "trainval")
    /\ modes_run # <<"trainval">> => calls = <<>>
    /\ \A k \in 1..Len(calls) :
          /\ calls[k].exp_dict = exp_list[k]
          /\ calls[k].reset = args.reset

\* the jobs were submitted with the reset flag set, and trainval never ran
DriverModesWitness ==
    /\ d_pc = "exit" /\ modes_run = <<"jobs">> /\ args.reset = 1
    /\ Len(exp_list) = 4 /\ calls = <<>>

\* what one epoch has finished so far is a prefix of this
EpochOrder == <<"train", "val", "append", "torch_save", "save_pkl">>

\* the state invariant of the checkpoint lifecycle
LifecycleInv ==
    /\ NRecords <= exp_dict.max_epoch
    /\ pc # "error"
    /\ pc = "done" => NRecords = exp_dict.max_epoch
    /\ Len(epoch_log) <= Len(EpochOrder)
    /\ \A k \in 1..Len(epoch_log) : epoch_log[k] = EpochOrder[k]
    /\ pc \in {"torch_save", "save_pkl"} =>
          /\ n_train_pass = n_val_pass
          /\ n_train_pass = e - s_epoch + 1
          /\ n_train_steps = n_train_pass * loader_len.train
          /\ NRecords = e
    /\ (pc = "done" /\ exp_dict.max_epoch = 1 /\ ~Exists(snap.dir.score_pkl))
          => /\ Len(score_pkl.data) = 1
             /\ score_pkl.data[1].epoch = 0
             /\ DOMAIN score_pkl.data[1] = {"epoch", "train_loss", "val_acc"}
             /\ Exists(model_pth)

\* the number of persisted records changes only by line 92, by one, or by a
\* reset
LifecycleStep ==
    \/ NRecords' = NRecords
    \/ pc = "save_pkl" /\ NRecords' = NRecords + 1
    \/ pc = "reset" /\ reset = 1 /\ past_reset' /\ NRecords' = 0

\* C7 (checkpoint lifecycle): with a supported configuration and loaders of
\* at least 10 batches, a process that is not terminated ends with exactly
\* max_epoch records persisted; the number of records never exceeds
\* max_epoch and grows by one per epoch; in each epoch the training pass
\* ends before the validation pass starts and both before the record and the
\* model state are persisted; max_epoch = 1 on an empty directory gives one
\* record of epoch 0 with train_loss and val_acc, and a model-state file.
CheckpointLifecycle ==
    /\ []LifecycleInv
    /\ [][LifecycleStep]_vars
    /\ (pc = "reset") ~> (pc \in {"done", "killed"})

\* a directory found in progress with one record was completed to two
CheckpointLifecycleWitness ==
    /\ pc = "done" /\ exp_dict.max_epoch = 2 /\ NRecords = 2
    /\ Exists(snap.dir.score_pkl) /\ Len(snap.dir.score_pkl.data) = 1
    /\ reset = 0

\* supported names, at least 10 training batches, fewer than 10 validation
\* batches
SmallValidationSet ==
    /\ ~Unsupported
    /\ loader_len.train >= PrintDiv
    /\ loader_len.val < PrintDiv

\* C8 (small validation set): with at least 10 training batches and fewer
\* than 10 validation batches the first validation pass raises
\* ZeroDivisionError out of trainval; no record is appended, neither file is
\* written, and the persisted checkpoint is what the process found.
SmallValidationSetFails ==
    (Started /\ SmallValidationSet)
    => /\ pc \notin {"append", "torch_save", "save_pkl"}
       /\ n_val_pass <= 1
       /\ pc = "val_batch" => i = 0
       /\ score_list = <<>>
       /\ n_writes = 0
       /\ model_pth = snap.dir.model_pth
       /\ score_pkl = snap.dir.score_pkl
       /\ (n_val_pass = 1 /\ pc \in {"done", "error"})
             => (pc = "error" /\ err = "ZeroDivisionError")
       /\ (pc = "done") => exp_dict.max_epoch = 0

\* the validation pass over an empty loader has raised
SmallValidationSetFailsWitness ==
    /\ SmallValidationSet /\ loader_len.val = 0
    /\ pc = "error" /\ err = "ZeroDivisionError"
    /\ n_val_pass = 1 /\ n_train_steps = loader_len.train

\* C9 (checkpoint consistency under termination): the model state a resume
\* loads has been trained for as many epochs as the score history it loads
\* has records.
ResumeLoadsConsistentCheckpoint ==
    (pc = "for" /\ n_train_pass = 0 /\ Len(score_list) > 0)
    => model.model = Len(score_list) * loader_len.train

\* C10 (resume finds its checkpoint): when the score-history file exists the
\* model-state file exists and the history holds a record, so neither load of
\* lines 59-61 raises.
ResumeFindsCheckpoint ==
    /\ Exists(score_pkl) => (Exists(model_pth) /\ Len(score_pkl.data) >= 1)
    /\ err \notin {"FileNotFoundError", "IndexError"}

\* a process terminated between line 91 and line 92 of its second epoch,
\* then resumed from the files it left
ResumeFindsCheckpointWitness ==
    /\ pc = "for" /\ reset = 0 /\ n_train_pass = 0
    /\ Exists(score_pkl) /\ Len(score_list) = 1
    /\ model.model = 2 * loader_len.train
====
